---------------------------- MODULE Spec2Model ----------------------------
(***************************************************************************)
(* Model of scripts/extract_excel_gui.py: the spec parser                  *)
(* (parse_position_args), the range resolver (get_range_data_from_pandas)  *)
(* and the extraction runs of ExcelExtractorApp.                           *)
(*                                                                         *)
(* A Python str is a sequence of one-character strings.                    *)
(*                                                                         *)
(* Three specifications share the variables:                               *)
(*   SpecParse  one call of parse_position_args on a bounded argument;     *)
(*   SpecRange  one call of get_range_data_from_pandas on a bounded        *)
(*              expression and frame;                                      *)
(*   Spec       the form from its construction to the end of one run.      *)
(*                                                                         *)
(* Outside the model: what print() writes to stdout, failures of           *)
(* os.makedirs and DataFrame.to_excel, and form events handled inside      *)
(* self.log (root.update()) while a run is going on.                       *)
(***************************************************************************)
EXTENDS Integers, Sequences, FiniteSets, TLC

VARIABLES
    position_args,      \* parse_position_args: the argument list
    parsed_positions,   \* parse_position_args: the list built so far
    ppc,                \* parse_position_args: "caller" | "loop" | "returned"
    df,                 \* get_range_data_from_pandas: the DataFrame argument
    cell_range,         \* get_range_data_from_pandas: the expression argument
    ret,                \* get_range_data_from_pandas: what the call produced
    input_files,        \* self.input_files
    param_text,         \* self.param_text, as its lines
    output_dir_var,     \* self.output_dir_var
    output_name_var,    \* self.output_name_var, as (stem, extension)
    output_mode,        \* self.output_mode
    dialog,             \* the last messagebox shown
    pc,                 \* "idle" | "extract_to_single_file" | "extract_to_multiple_files" | "done"
    file_i,             \* position of the loop over self.input_files
    all_results,        \* all_results of extract_to_single_file
    log_text,           \* self.log_text, as its lines
    made_dirs,          \* directories made by os.makedirs
    written,            \* the to_excel calls made, in order
    workbooks,          \* what the environment did with each workbook processed
    emitted             \* the results.append / all_results.append calls made

parseVars == <<position_args, parsed_positions, ppc>>
rangeVars == <<df, cell_range, ret>>
appVars == <<input_files, param_text, output_dir_var, output_name_var, output_mode,
             dialog, pc, file_i, all_results, log_text, made_dirs, written,
             workbooks, emitted>>
vars == <<parseVars, rangeVars, appVars>>

\* The variables of a function that is not being called.
ParseIdle ==
    /\ position_args = <<>>
    /\ parsed_positions = <<>>
    /\ ppc = "caller"

RangeIdle ==
    /\ df = [sheet |-> "S", num_rows |-> 0, num_cols |-> 0]
    /\ cell_range = <<>>
    /\ ret = [kind |-> "none"]

AppIdle ==
    /\ input_files = <<>>
    /\ param_text = <<>>
    /\ output_dir_var = ""
    /\ output_name_var = [stem |-> "", ext |-> ""]
    /\ output_mode = "single"
    /\ dialog = "none"
    /\ pc = "unused"
    /\ file_i = 0
    /\ all_results = <<>>
    /\ log_text = <<>>
    /\ made_dirs = {}
    /\ written = <<>>
    /\ workbooks = <<>>
    /\ emitted = <<>>

---------------------------------------------------------------------------
(* Characters: str.isdigit / str.isalpha on one character.                 *)

UpperLetters == <<"A","B","C","D","E","F","G","H","I","J","K","L","M",
                  "N","O","P","Q","R","S","T","U","V","W","X","Y","Z">>

LowerLetters == <<"a","b","c","d","e","f","g","h","i","j","k","l","m",
                  "n","o","p","q","r","s","t","u","v","w","x","y","z">>

DigitChars == <<"0","1","2","3","4","5","6","7","8","9">>

isdigit(c) == \E i \in DOMAIN DigitChars : DigitChars[i] = c

isalpha(c) == \E i \in DOMAIN UpperLetters : UpperLetters[i] = c \/ LowerLetters[i] = c

\* any(char.isdigit() for char in s)
AnyDigit(s) == \E k \in DOMAIN s : isdigit(s[k])

\* any(char.isalpha() for char in s)
AnyAlpha(s) == \E k \in DOMAIN s : isalpha(s[k])

---------------------------------------------------------------------------
(* parse_position_args                                                     *)

\* arg.split('-'): the pieces between the dashes, empty pieces kept.
RECURSIVE SplitFrom(_, _, _)
SplitFrom(s, k, cur) ==
    IF k > Len(s) THEN <<cur>>
    ELSE IF s[k] = "-" THEN <<cur>> \o SplitFrom(s, k + 1, <<>>)
    ELSE SplitFrom(s, k + 1, Append(cur, s[k]))

SplitDash(s) == SplitFrom(s, 1, <<>>)

\* '-'.join(parts)
RECURSIVE JoinDash(_)
JoinDash(parts) ==
    IF Len(parts) = 0 THEN <<>>
    ELSE IF Len(parts) = 1 THEN parts[1]
    ELSE parts[1] \o <<"-">> \o JoinDash(Tail(parts))

\* Mutant of LooksLikeCell: a digit or a letter is enough.
LooksLikeCellEither(left_part) == AnyDigit(left_part) \/ AnyAlpha(left_part)

\* The test of line 96 on a candidate left part.
LooksLikeCell(left_part) == AnyDigit(left_part) /\ AnyAlpha(left_part)

\* for i in range(len(parts)-1, 0, -1): ... break / else: (arg, arg)
RECURSIVE ScanSplit(_, _, _)
ScanSplit(arg, parts, i) ==
    IF i < 1 THEN <<arg, arg>>
    ELSE LET left_part  == JoinDash(SubSeq(parts, 1, i))
             right_part == JoinDash(SubSeq(parts, i + 1, Len(parts)))
         IN  IF LooksLikeCell(left_part) THEN <<left_part, right_part>>
             ELSE ScanSplit(arg, parts, i - 1)

\* The body of the loop over position_args: the pair appended for one arg.
ParseArg(arg) ==
    IF \E k \in DOMAIN arg : arg[k] = "-"
    THEN ScanSplit(arg, SplitDash(arg), Len(SplitDash(arg)) - 1)
    ELSE <<arg, arg>>

\* The whole function, as the callers use it.
RECURSIVE parse_position_args(_)
parse_position_args(args) ==
    IF Len(args) = 0 THEN <<>>
    ELSE <<ParseArg(Head(args))>> \o parse_position_args(Tail(args))

---------------------------------------------------------------------------
(* Python and pandas values.                                               *)
(*                                                                         *)
(* A DataFrame read with header=None is its shape and the sheet it was     *)
(* read from; the scalar of a cell is the cell's identity (sheet, 0-based  *)
(* row, 0-based column), so two different cells never hold equal scalars.  *)

None == [t |-> "None"]

Scalar(frame, r, c) == [t |-> "cell", sheet |-> frame.sheet, row |-> r, col |-> c]

List(items) == [t |-> "list", items |-> items]

Return(val) == [kind |-> "return", val |-> val]

Raise(exc) == [kind |-> "raise", exc |-> exc]

\* df.iloc[r, c]: negative positions count from the end, anything else
\* outside the frame is an IndexError.
IlocInBounds(frame, r, c) ==
    /\ -frame.num_rows <= r /\ r < frame.num_rows
    /\ -frame.num_cols <= c /\ c < frame.num_cols

Iloc(frame, r, c) ==
    IF IlocInBounds(frame, r, c)
    THEN Scalar(frame, IF r < 0 THEN r + frame.num_rows ELSE r,
                       IF c < 0 THEN c + frame.num_cols ELSE c)
    ELSE [t |-> "IndexError"]

---------------------------------------------------------------------------
(* get_range_data_from_pandas                                              *)

\* s.isdigit() on a whole string: not empty, digits only.
IsDigitStr(s) == Len(s) > 0 /\ \A k \in DOMAIN s : isdigit(s[k])

DigitValue(c) == (CHOOSE i \in DOMAIN DigitChars : DigitChars[i] = c) - 1

\* int(s) of a digit string
RECURSIVE IntOf(_)
IntOf(s) ==
    IF Len(s) = 0 THEN 0
    ELSE 10 * IntOf(SubSeq(s, 1, Len(s) - 1)) + DigitValue(s[Len(s)])

\* The i of "for i in range(1, len(cell))" whose suffix cell[i:] is digits.
DigitSuffixStarts(cell) ==
    {i \in 1..(Len(cell) - 1) : IsDigitStr(SubSeq(cell, i + 1, Len(cell)))}

\* The loop breaks at the first such i; without one its else branch raises.
ParsesAsCell(cell) == DigitSuffixStarts(cell) # {}

BreakAt(cell) ==
    CHOOSE i \in DigitSuffixStarts(cell) : \A j \in DigitSuffixStarts(cell) : i <= j

ColStrOf(cell) == SubSeq(cell, 1, BreakAt(cell))

RowOf(cell) == IntOf(SubSeq(cell, BreakAt(cell) + 1, Len(cell)))

\* openpyxl.utils.column_index_from_string: the names A..ZZZ in either case
\* are columns 1..18278, every other string is a ValueError.
MaxColumnLetters == 3

LetterIndex(c) ==
    CHOOSE i \in DOMAIN UpperLetters : UpperLetters[i] = c \/ LowerLetters[i] = c

IsColumnName(col_str) ==
    /\ Len(col_str) >= 1
    /\ Len(col_str) <= MaxColumnLetters
    /\ \A k \in DOMAIN col_str : isalpha(col_str[k])

RECURSIVE column_index_from_string(_)
column_index_from_string(col_str) ==
    IF Len(col_str) = 0 THEN 0
    ELSE 26 * column_index_from_string(SubSeq(col_str, 1, Len(col_str) - 1))
         + LetterIndex(col_str[Len(col_str)])

\* range(a, b) as a list
PyRange(a, b) == [k \in 1..(IF b > a THEN b - a ELSE 0) |-> a + k - 1]

Min2(a, b) == IF a <= b THEN a ELSE b

\* [None] * n
Nones(n) == [k \in 1..(IF n > 0 THEN n ELSE 0) |-> None]

\* Mutant of RowsExceed: only the start row is tested.
RowsExceedStartOnly(frame, start_row, end_row) == start_row > frame.num_rows

\* Line 61: the test that drops a whole range.
RowsExceed(frame, start_row, end_row) ==
    start_row > frame.num_rows \/ end_row > frame.num_rows

\* Lines 70-74: what one row_idx appends to values.
RECURSIVE RowCells(_, _, _)
RowCells(frame, row_idx, cols) ==
    IF Len(cols) = 0 THEN <<>>
    ELSE <<Iloc(frame, row_idx, Head(cols))>> \o RowCells(frame, row_idx, Tail(cols))

RowValues(frame, row_idx, start_col_idx, end_col_idx) ==
    RowCells(frame, row_idx,
             PyRange(start_col_idx, Min2(end_col_idx + 1, frame.num_cols)))
    \o (IF end_col_idx >= frame.num_cols
        THEN Nones(end_col_idx + 1 - frame.num_cols)
        ELSE <<>>)

\* Lines 68-75: the loop over row_idx.
RECURSIVE RangeValues(_, _, _, _)
RangeValues(frame, rows, start_col_idx, end_col_idx) ==
    IF Len(rows) = 0 THEN <<>>
    ELSE RowValues(frame, Head(rows), start_col_idx, end_col_idx)
         \o RangeValues(frame, Tail(rows), start_col_idx, end_col_idx)

\* Lines 18-35: an expression without a colon.
SingleCell(frame, cell) ==
    IF ~ParsesAsCell(cell) THEN Raise("ValueError")
    ELSE IF ~IsColumnName(ColStrOf(cell)) THEN Raise("ValueError")
    ELSE LET row     == RowOf(cell)
             col_idx == column_index_from_string(ColStrOf(cell)) - 1
         IN  IF row > frame.num_rows THEN Return(None)
             ELSE IF col_idx >= frame.num_cols THEN Return(None)
             ELSE IF ~IlocInBounds(frame, row - 1, col_idx) THEN Raise("IndexError")
             ELSE Return(Iloc(frame, row - 1, col_idx))

\* Lines 36-75: an expression with a colon.
CellRange(frame, expr) ==
    LET colons == {k \in DOMAIN expr : expr[k] = ":"}
    IN  IF Cardinality(colons) # 1 THEN Raise("ValueError")  \* split(':') unpacks into two
        ELSE
        LET at         == CHOOSE k \in colons : TRUE
            start_cell == SubSeq(expr, 1, at - 1)
            end_cell   == SubSeq(expr, at + 1, Len(expr))
        IN  IF ~ParsesAsCell(start_cell) THEN Raise("ValueError")
            ELSE IF ~ParsesAsCell(end_cell) THEN Raise("ValueError")
            ELSE IF ~IsColumnName(ColStrOf(start_cell)) THEN Raise("ValueError")
            ELSE IF ~IsColumnName(ColStrOf(end_cell)) THEN Raise("ValueError")
            ELSE
            LET start_row     == RowOf(start_cell)
                end_row       == RowOf(end_cell)
                start_col_idx == column_index_from_string(ColStrOf(start_cell)) - 1
                end_col_idx   == column_index_from_string(ColStrOf(end_cell)) - 1
                values        == RangeValues(frame,
                                     PyRange(start_row - 1, Min2(end_row, frame.num_rows)),
                                     start_col_idx, end_col_idx)
            IN  IF RowsExceed(frame, start_row, end_row) THEN Return(List(<<>>))
                ELSE IF \E k \in DOMAIN values : values[k] = [t |-> "IndexError"]
                     THEN Raise("IndexError")
                ELSE Return(List(values))

get_range_data_from_pandas(frame, expr) ==
    IF \A k \in DOMAIN expr : expr[k] # ":"
    THEN SingleCell(frame, expr)
    ELSE CellRange(frame, expr)

---------------------------------------------------------------------------
(* Bounds and inputs of the resolver specification.                        *)

MaxRows == 2            \* rows of a sheet
MaxCols == 2            \* columns of a sheet
MaxFiles == 2           \* input files of one run
MaxExprLen == 5         \* characters of a coordinate expression

RangeChars == {"A", "C", "0", "1", "2", ":"}

\* read_excel gives an empty frame for an empty sheet, else a full grid.
Frames(sheet) ==
    {[sheet |-> sheet, num_rows |-> 0, num_cols |-> 0]} \cup
    {[sheet |-> sheet, num_rows |-> r, num_cols |-> c] : r \in 1..MaxRows, c \in 1..MaxCols}

RangeInit ==
    /\ df \in Frames("S")
    /\ cell_range \in UNION {[1..n -> RangeChars] : n \in 0..MaxExprLen}
    /\ ret = [kind |-> "pending"]
    /\ ParseIdle
    /\ AppIdle

\* val = get_range_data_from_pandas(df, cell_range), or the exception it raises.
ResolveCall ==
    /\ ret = [kind |-> "pending"]
    /\ ret' = get_range_data_from_pandas(df, cell_range)
    /\ UNCHANGED <<df, cell_range, parseVars, appVars>>

RangeNext == ResolveCall

SpecRange == RangeInit /\ [][RangeNext]_vars

---------------------------------------------------------------------------
(* Bounds and inputs of the parser specification.                          *)

MaxChars == 5       \* characters in all lines of one argument list together
MaxArgs == 2        \* lines in one argument list

ParseChars == {"F", "4", "-", ":"}

RECURSIVE TotalLen(_)
TotalLen(lines) ==
    IF Len(lines) = 0 THEN 0 ELSE Len(Head(lines)) + TotalLen(Tail(lines))

ParseInit ==
    /\ ParseIdle
    /\ RangeIdle
    /\ AppIdle

\* The caller adds one (still empty) line to the list it will pass.
CallerAddsLine ==
    /\ ppc = "caller"
    /\ Len(position_args) < MaxArgs
    /\ position_args' = Append(position_args, <<>>)
    /\ UNCHANGED <<parsed_positions, ppc, rangeVars, appVars>>

\* The caller extends the last line of the list by one character.
CallerAddsChar ==
    /\ ppc = "caller"
    /\ Len(position_args) > 0
    /\ TotalLen(position_args) < MaxChars
    /\ \E c \in ParseChars :
           position_args' = [position_args EXCEPT
                                ![Len(position_args)] = Append(@, c)]
    /\ UNCHANGED <<parsed_positions, ppc, rangeVars, appVars>>

\* parse_position_args(position_args) is called: parsed_positions = [].
ParseCall ==
    /\ ppc = "caller"
    /\ ppc' = "loop"
    /\ parsed_positions' = <<>>
    /\ UNCHANGED <<position_args, rangeVars, appVars>>

\* One iteration of "for arg in position_args".
ParseIteration ==
    /\ ppc = "loop"
    /\ Len(parsed_positions) < Len(position_args)
    /\ parsed_positions' =
           Append(parsed_positions, ParseArg(position_args[Len(parsed_positions) + 1]))
    /\ UNCHANGED <<position_args, ppc, rangeVars, appVars>>

\* return parsed_positions
ParseReturn ==
    /\ ppc = "loop"
    /\ Len(parsed_positions) = Len(position_args)
    /\ ppc' = "returned"
    /\ UNCHANGED <<position_args, parsed_positions, rangeVars, appVars>>

ParseNext ==
    \/ CallerAddsLine
    \/ CallerAddsChar
    \/ ParseCall
    \/ ParseIteration
    \/ ParseReturn

SpecParse == ParseInit /\ [][ParseNext]_vars

---------------------------------------------------------------------------
(* ExcelExtractorApp: the form's state and its handlers.                   *)
(*                                                                         *)
(* A path is its directory, the stem of its file name and its extension; a *)
(* workbook on disk is the list of its sheet names.  Whether a workbook    *)
(* opens and whether a sheet can be read is decided by the environment     *)
(* when the run gets there.  Every sheet that is read is a full            *)
(* MaxRows x MaxCols grid.                                                 *)

FilePool ==
    {[dir |-> "d1", stem |-> "a", ext |-> ".xlsx"],
     [dir |-> "d2", stem |-> "a", ext |-> ".xlsx"],
     [dir |-> "d1", stem |-> "b", ext |-> ".xlsx"]}

\* excel_file.sheet_names of the workbook at a path
sheet_names(path) == IF path.stem = "a" THEN <<"S1", "S2">> ELSE <<"S1">>

\* pd.read_excel(input_file, sheet_name=sheet_name, header=None, ...)
read_excel(path, sheet_name) ==
    [sheet |-> <<path.dir, path.stem, path.ext, sheet_name>>,
     num_rows |-> MaxRows, num_cols |-> MaxCols]

\* os.path.basename(input_file)
basename(path) == <<path.stem, path.ext>>

Str(s) == [t |-> "str", s |-> s]

\* self.default_params; a CJK letter is written as the initial of its pinyin
\* (one alphabetic character each), the other characters as they are.
default_params ==
    <<<<"F", "4", "-", "y", "p", "m", "c">>, <<"N", "7", "-", "l", "x">>, <<"F", "6", "-", "j", "y", "t", "j">>, <<"A", "1", "5", "-", "b", "l", "s", "j">>,
      <<"N", "8", "-", "y", "p", "h", "l">>, <<"N", "6", "-", "w", "z">>, <<"E", "1", "5", "-", "f", "k", "[", "m", "i", "n", "]">>, <<"G", "1", "5", "-", "f", "m", "j">>,
      <<"H", "1", "5", "-", "f", "g">>, <<"K", "1", "5", "-", "f", "m", "j", "%">>, <<"C", "1", "5", "-", "l", "x">>, <<"G", "1", "6", "-", "z", "h">>>>

\* What the user may have typed into the parameter box, line by line.
ParamTexts ==
    {<<<<"A", "1", "-", "x">>>>,
     <<<<"z", "z", "-", "y">>, <<"A", "1", "-", "x">>>>,
     <<<<"A", "1", "-", "x">>, <<"B", "-", "1", "-", "x">>>>,
     <<<<"A", "1", "-", "s", "h", "e", "e", "t">>>>,
     <<<<" ">>, <<>>>>,
     <<<<" ", "A", "2", "-", "x", " ">>, <<" ">>, <<"A", "1", ":", "C", "1", "-", "r">>>>,
     <<<<"z", "z">>, <<"9">>>>}

OutputDirs == {"cwd", ""}

OutputNames ==
    {[stem |-> "result", ext |-> ".xlsx"], [stem |-> "res", ext |-> ""],
     [stem |-> "", ext |-> ""]}

\* line.strip()
RECURSIVE lstrip(_)
lstrip(line) ==
    IF Len(line) > 0 /\ Head(line) = " " THEN lstrip(Tail(line)) ELSE line

RECURSIVE rstrip(_)
rstrip(line) ==
    IF Len(line) > 0 /\ line[Len(line)] = " "
    THEN rstrip(SubSeq(line, 1, Len(line) - 1)) ELSE line

strip(line) == rstrip(lstrip(line))

\* [line.strip() for line in lines]
RECURSIVE StripAll(_)
StripAll(lines) ==
    IF Len(lines) = 0 THEN <<>> ELSE <<strip(Head(lines))>> \o StripAll(Tail(lines))

\* Mutant of get_parameters: the lines are not stripped before the test.
get_parametersUnstripped(text) == SelectSeq(text, LAMBDA line : Len(line) > 0)

\* get_parameters: the stripped lines of the box that are not blank.
get_parameters(text) == SelectSeq(StripAll(text), LAMBDA line : Len(line) > 0)

\* rowdict[key] = val on an insertion-ordered dict
DictHas(rowdict, key) == \E k \in DOMAIN rowdict : rowdict[k].key = key

DictSet(rowdict, key, val) ==
    IF DictHas(rowdict, key)
    THEN [k \in DOMAIN rowdict |->
             IF rowdict[k].key = key THEN [key |-> key, val |-> val] ELSE rowdict[k]]
    ELSE Append(rowdict, [key |-> key, val |-> val])

\* Mutant of SetField: a spec that raises leaves the row as it is.
SetFieldSkipFailed(rowdict, frame, spec) ==
    LET got == get_range_data_from_pandas(frame, spec[1])
    IN  IF got.kind = "raise" THEN rowdict
        ELSE DictSet(rowdict, spec[2], got.val)

\* Lines 134-139 and 381-386: one spec applied to the row being built.
SetField(rowdict, frame, spec) ==
    LET got == get_range_data_from_pandas(frame, spec[1])
    IN  IF got.kind = "raise" THEN DictSet(rowdict, spec[2], None)
        ELSE DictSet(rowdict, spec[2], got.val)

\* Lines 130-139 and 378-386: the row of one sheet.
RECURSIVE ApplySpecs(_, _, _)
ApplySpecs(rowdict, frame, specs) ==
    IF Len(specs) = 0 THEN rowdict
    ELSE ApplySpecs(SetField(rowdict, frame, Head(specs)), frame, Tail(specs))

ExtractRow(path, sheet_name, specs) ==
    ApplySpecs(<<[key |-> <<"s", "h", "e", "e", "t">>, val |-> Str(<<sheet_name>>)],
                 [key |-> <<"s", "o", "u", "r", "c", "e", "_", "f", "i", "l", "e">>, val |-> Str(basename(path))]>>,
               read_excel(path, sheet_name), specs)

\* The log lines of lines 384-385, one for each spec that raised.
RECURSIVE SpecWarnings(_, _)
SpecWarnings(frame, specs) ==
    IF Len(specs) = 0 THEN <<>>
    ELSE (IF get_range_data_from_pandas(frame, Head(specs)[1]).kind = "raise"
          THEN <<[msg |-> "cannot extract", about |-> Head(specs)[1]]>>
          ELSE <<>>)
         \o SpecWarnings(frame, Tail(specs))

\* The loop over excel_file.sheet_names (lines 123-141 and 370-389):
\* readable[k] tells whether read_excel succeeds on the k-th sheet.  A sheet
\* that cannot be read is skipped (continue).
RECURSIVE SheetLoop(_, _, _, _)
SheetLoop(path, readable, specs, k) ==
    IF k > Len(sheet_names(path)) THEN [rows |-> <<>>, log |-> <<>>, made |-> <<>>]
    ELSE LET rest == SheetLoop(path, readable, specs, k + 1)
             name == sheet_names(path)[k]
         IN  IF ~readable[k]
             THEN [rows |-> rest.rows,
                   log  |-> <<[msg |-> "cannot read sheet", about |-> <<name>>]>> \o rest.log,
                   made |-> rest.made]
             ELSE LET rowdict == ExtractRow(path, name, specs)
                  IN  [rows |-> <<rowdict>> \o rest.rows,
                       log  |-> SpecWarnings(read_excel(path, name), specs)
                                \o <<[msg |-> "sheet extracted", about |-> <<name>>]>>
                                \o rest.log,
                       made |-> <<[path |-> path, sheet |-> name, row |-> rowdict]>>
                                \o rest.made]

\* final_cols of lines 148-151 and 397-398: every header is a column of the
\* frame built from the rows, so the filter keeps them all.
RECURSIVE Headers(_)
Headers(specs) ==
    IF Len(specs) = 0 THEN <<>> ELSE <<Head(specs)[2]>> \o Headers(Tail(specs))

final_cols(specs) == <<<<"s", "h", "e", "e", "t">>, <<"s", "o", "u", "r", "c", "e", "_", "f", "i", "l", "e">>>> \o Headers(specs)

\* Lines 408-416: the output path of one input file in per-file mode.
OutputPathFor(output_dir, output_name, input_file) ==
    [dir  |-> output_dir,
     name |-> <<output_name.stem, "_", input_file.stem,
                IF output_name.ext = "" THEN ".xlsx" ELSE output_name.ext>>]

\* Line 360: os.path.join(output_dir, output_name)
MergedOutputPath(output_dir, output_name) ==
    [dir |-> output_dir, name |-> <<output_name.stem, output_name.ext>>]

NoDialog == "none"

AppInit ==
    /\ input_files = <<>>
    /\ param_text = default_params
    /\ output_dir_var = "cwd"
    /\ output_name_var = [stem |-> "result", ext |-> ".xlsx"]
    /\ output_mode = "single"
    /\ dialog = NoDialog
    /\ pc = "idle"
    /\ file_i = 0
    /\ all_results = <<>>
    /\ log_text = <<>>
    /\ made_dirs = {}
    /\ written = <<>>
    /\ workbooks = <<>>
    /\ emitted = <<>>

Init ==
    /\ AppInit
    /\ ParseIdle
    /\ RangeIdle

formVars == <<input_files, param_text, output_dir_var, output_name_var, output_mode>>
runVars == <<pc, file_i, all_results, log_text, made_dirs, written, workbooks, emitted>>

\* add_files, one chosen file at a time.
add_files ==
    /\ pc = "idle"
    /\ Len(input_files) < MaxFiles
    /\ \E file \in FilePool :
           input_files' =
               IF \E k \in DOMAIN input_files : input_files[k] = file
               THEN input_files
               ELSE Append(input_files, file)
    /\ UNCHANGED <<param_text, output_dir_var, output_name_var, output_mode,
                   dialog, runVars, parseVars, rangeVars>>

\* remove_selected_file
remove_selected_file ==
    /\ pc = "idle"
    /\ \E index \in DOMAIN input_files :
           input_files' = SubSeq(input_files, 1, index - 1)
                          \o SubSeq(input_files, index + 1, Len(input_files))
    /\ UNCHANGED <<param_text, output_dir_var, output_name_var, output_mode,
                   dialog, runVars, parseVars, rangeVars>>

\* clear_files
clear_files ==
    /\ pc = "idle"
    /\ input_files' = <<>>
    /\ UNCHANGED <<param_text, output_dir_var, output_name_var, output_mode,
                   dialog, runVars, parseVars, rangeVars>>

\* load_default_params
load_default_params ==
    /\ pc = "idle"
    /\ param_text' = default_params
    /\ UNCHANGED <<input_files, output_dir_var, output_name_var, output_mode,
                   dialog, runVars, parseVars, rangeVars>>

\* clear_parameters
clear_parameters ==
    /\ pc = "idle"
    /\ param_text' = <<>>
    /\ UNCHANGED <<input_files, output_dir_var, output_name_var, output_mode,
                   dialog, runVars, parseVars, rangeVars>>

\* The user edits the parameter box (self.param_text).
EditParamText ==
    /\ pc = "idle"
    /\ param_text' \in ParamTexts
    /\ UNCHANGED <<input_files, output_dir_var, output_name_var, output_mode,
                   dialog, runVars, parseVars, rangeVars>>

\* browse_output_dir, or the user edits the entry bound to output_dir_var.
EditOutputDir ==
    /\ pc = "idle"
    /\ output_dir_var' \in OutputDirs
    /\ UNCHANGED <<input_files, param_text, output_name_var, output_mode,
                   dialog, runVars, parseVars, rangeVars>>

\* The user edits the entry bound to output_name_var.
EditOutputName ==
    /\ pc = "idle"
    /\ output_name_var' \in OutputNames
    /\ UNCHANGED <<input_files, param_text, output_dir_var, output_mode,
                   dialog, runVars, parseVars, rangeVars>>

\* The radio buttons bound to output_mode.
SelectOutputMode ==
    /\ pc = "idle"
    /\ output_mode' \in {"single", "multiple"}
    /\ UNCHANGED <<input_files, param_text, output_dir_var, output_name_var,
                   dialog, runVars, parseVars, rangeVars>>

\* start_extraction up to the call of line 345 or 348.
start_extraction ==
    /\ pc = "idle"
    /\ IF Len(input_files) = 0
       THEN dialog' = "error: no input file" /\ UNCHANGED runVars
       ELSE IF Len(get_parameters(param_text)) = 0
       THEN dialog' = "error: no parameter" /\ UNCHANGED runVars
       ELSE IF output_dir_var = ""
       THEN dialog' = "error: no output directory" /\ UNCHANGED runVars
       ELSE IF output_name_var.stem = "" /\ output_name_var.ext = ""
       THEN dialog' = "error: no output name" /\ UNCHANGED runVars
       ELSE /\ made_dirs' = made_dirs \cup {output_dir_var}
            /\ log_text' = Append(log_text, [msg |-> "start", about |-> <<>>])
            /\ pc' = IF output_mode = "single" THEN "extract_to_single_file"
                     ELSE "extract_to_multiple_files"
            /\ file_i' = 1
            /\ all_results' = <<>>
            /\ dialog' = NoDialog
            /\ UNCHANGED <<written, workbooks, emitted>>
    /\ UNCHANGED <<formVars, parseVars, rangeVars>>

\* Mutant of Accumulate: all_results starts again with every file.
AccumulateLastFile(results, rows) == rows

\* Line 388, over the sheets of one workbook: all_results.append(rowdict).
Accumulate(results, rows) == results \o rows

\* What the environment does with a workbook: it opens or not, and each of
\* its sheets reads or not.
Outcomes(path) ==
    {[path |-> path, opened |-> FALSE, readable |-> [k \in DOMAIN sheet_names(path) |-> FALSE]]}
    \cup {[path |-> path, opened |-> TRUE, readable |-> r] :
             r \in [DOMAIN sheet_names(path) -> BOOLEAN]}

\* extract_to_single_file: one iteration of the loop over self.input_files.
SingleFileIteration ==
    /\ pc = "extract_to_single_file"
    /\ file_i <= Len(input_files)
    /\ \E book \in Outcomes(input_files[file_i]) :
           LET input_file == input_files[file_i]
               specs == parse_position_args(get_parameters(param_text))
               loop  == SheetLoop(input_file, book.readable, specs, 1)
               begin == <<[msg |-> "processing", about |-> basename(input_file)]>>
           IN  /\ workbooks' = Append(workbooks, book)
               /\ IF book.opened
                  THEN /\ all_results' = Accumulate(all_results, loop.rows)
                       /\ emitted' = emitted \o loop.made
                       /\ log_text' = log_text \o begin \o loop.log
                  ELSE /\ log_text' = log_text \o begin \o
                              <<[msg |-> "file error", about |-> basename(input_file)]>>
                       /\ UNCHANGED <<all_results, emitted>>
    /\ file_i' = file_i + 1
    /\ UNCHANGED <<pc, made_dirs, written, dialog, formVars, parseVars, rangeVars>>

\* extract_to_single_file after the loop (lines 395-404), and the end of
\* start_extraction (lines 350-355).
SingleFileFinish ==
    /\ pc = "extract_to_single_file"
    /\ file_i > Len(input_files)
    /\ IF Len(all_results) > 0
       THEN /\ written' = Append(written,
                   [path    |-> MergedOutputPath(output_dir_var, output_name_var),
                    columns |-> final_cols(parse_position_args(get_parameters(param_text))),
                    records |-> all_results])
            /\ log_text' = log_text \o <<[msg |-> "saved", about |-> <<>>],
                                         [msg |-> "total", about |-> <<>>]>>
            /\ dialog' = "info: done"
       ELSE /\ log_text' = Append(log_text, [msg |-> "run error", about |-> <<"no data">>])
            /\ dialog' = "error: no data"
            /\ UNCHANGED written
    /\ pc' = "done"
    /\ UNCHANGED <<file_i, all_results, made_dirs, workbooks, emitted,
                   formVars, parseVars, rangeVars>>

\* extract_to_multiple_files: one iteration of the loop over self.input_files,
\* with the call of extract_excel_info_single_file (lines 108-157) in it.
MultipleFilesIteration ==
    /\ pc = "extract_to_multiple_files"
    /\ file_i <= Len(input_files)
    /\ \E book \in Outcomes(input_files[file_i]) :
           LET input_file == input_files[file_i]
               specs   == parse_position_args(get_parameters(param_text))
               loop    == SheetLoop(input_file, book.readable, specs, 1)
               results == IF book.opened THEN loop.rows ELSE <<>>
               begin   == <<[msg |-> "processing", about |-> basename(input_file)]>>
           IN  /\ workbooks' = Append(workbooks, book)
               /\ emitted' = IF book.opened THEN emitted \o loop.made ELSE emitted
               /\ IF Len(results) > 0
                  THEN /\ written' = Append(written,
                              [path    |-> OutputPathFor(output_dir_var, output_name_var,
                                                         input_file),
                               columns |-> final_cols(specs),
                               records |-> results])
                       /\ log_text' = log_text \o begin \o
                              <<[msg |-> "file done", about |-> basename(input_file)]>>
                  ELSE /\ log_text' = log_text \o begin \o
                              <<[msg |-> "file error", about |-> basename(input_file)]>>
                       /\ UNCHANGED written
    /\ file_i' = file_i + 1
    /\ UNCHANGED <<pc, all_results, made_dirs, dialog, formVars, parseVars, rangeVars>>

\* extract_to_multiple_files returns; start_extraction shows the end dialog.
MultipleFilesFinish ==
    /\ pc = "extract_to_multiple_files"
    /\ file_i > Len(input_files)
    /\ dialog' = "info: done"
    /\ pc' = "done"
    /\ UNCHANGED <<file_i, all_results, log_text, made_dirs, written, workbooks,
                   emitted, formVars, parseVars, rangeVars>>

Next ==
    \/ add_files
    \/ remove_selected_file
    \/ clear_files
    \/ load_default_params
    \/ clear_parameters
    \/ EditParamText
    \/ EditOutputDir
    \/ EditOutputName
    \/ SelectOutputMode
    \/ start_extraction
    \/ SingleFileIteration
    \/ SingleFileFinish
    \/ MultipleFilesIteration
    \/ MultipleFilesFinish

Spec == Init /\ [][Next]_vars

---------------------------------------------------------------------------
(* Properties of parse_position_args, under SpecParse.                     *)

\* The number of leading letters of a token.
LetterRun(t) ==
    CHOOSE n \in 0..Len(t) :
        /\ \A k \in 1..n : isalpha(t[k])
        /\ n = Len(t) \/ ~isalpha(t[n + 1])

\* <letters><digits>, both runs non-empty.
IsCellToken(t) ==
    /\ LetterRun(t) >= 1
    /\ LetterRun(t) < Len(t)
    /\ \A k \in (LetterRun(t) + 1)..Len(t) : isdigit(t[k])

TokenColumn(t) == column_index_from_string(SubSeq(t, 1, LetterRun(t)))

TokenRow(t) == IntOf(SubSeq(t, LetterRun(t) + 1, Len(t)))

ColonsOf(t) == {k \in DOMAIN t : t[k] = ":"}

\* <cell>:<cell>
IsRangeToken(t) ==
    /\ Cardinality(ColonsOf(t)) = 1
    /\ LET at == CHOOSE k \in ColonsOf(t) : TRUE
       IN  /\ IsCellToken(SubSeq(t, 1, at - 1))
           /\ IsCellToken(SubSeq(t, at + 1, Len(t)))

RangeStart(t) == SubSeq(t, 1, (CHOOSE k \in ColonsOf(t) : TRUE) - 1)

RangeEnd(t) == SubSeq(t, (CHOOSE k \in ColonsOf(t) : TRUE) + 1, Len(t))

DashesOf(line) == {k \in DOMAIN line : line[k] = "-"}

FirstDash(line) == CHOOSE k \in DashesOf(line) : \A j \in DashesOf(line) : k <= j

LastOf(S) == CHOOSE k \in S : \A j \in S : j <= k

\* C1 (as claimed): a line <coordinate>-<field name> whose coordinate is a
\* cell or a range and whose field name contains a dash parses to
\* (coordinate, the whole remainder).
C1_DashedFieldNameKeptWhole ==
    \A i \in DOMAIN parsed_positions :
        LET line == position_args[i]
        IN  (/\ DashesOf(line) # {}
             /\ LET coord == SubSeq(line, 1, FirstDash(line) - 1)
                    field == SubSeq(line, FirstDash(line) + 1, Len(line))
                IN  /\ IsCellToken(coord) \/ IsRangeToken(coord)
                    /\ DashesOf(field) # {})
            => parsed_positions[i] =
                   <<SubSeq(line, 1, FirstDash(line) - 1),
                     SubSeq(line, FirstDash(line) + 1, Len(line))>>

\* The dashes of a line whose left side holds a digit and a letter.
QualifyingDashes(line) ==
    {k \in DashesOf(line) :
        /\ \E j \in 1..(k - 1) : isdigit(line[j])
        /\ \E j \in 1..(k - 1) : isalpha(line[j])}

SplitAtRightmostQualifying(line) ==
    IF QualifyingDashes(line) = {} THEN <<line, line>>
    ELSE <<SubSeq(line, 1, LastOf(QualifyingDashes(line)) - 1),
           SubSeq(line, LastOf(QualifyingDashes(line)) + 1, Len(line))>>

\* C2: every line gives exactly one pair, in input order: the line split at
\* its rightmost dash whose left side holds a digit and a letter, or (line,
\* line) when it has no dash or no dash qualifies.
C2_SplitAtRightmostQualifyingDash ==
    /\ Len(parsed_positions) <= Len(position_args)
    /\ ppc = "returned" => Len(parsed_positions) = Len(position_args)
    /\ \A i \in DOMAIN parsed_positions :
           parsed_positions[i] = SplitAtRightmostQualifying(position_args[i])

\* C2 witness: a returned list of two lines, the first with two dashes or
\* more and split at a qualifying one, the second with dashes of which none
\* qualifies and returned whole.
C2_Witness ==
    /\ ppc = "returned"
    /\ Len(position_args) = 2
    /\ Cardinality(QualifyingDashes(position_args[1])) >= 1
    /\ Cardinality(DashesOf(position_args[1])) >= 2
    /\ parsed_positions[1][1] # position_args[1]
    /\ DashesOf(position_args[2]) # {}
    /\ QualifyingDashes(position_args[2]) = {}
    /\ parsed_positions[2] = <<position_args[2], position_args[2]>>

---------------------------------------------------------------------------
(* Properties of get_range_data_from_pandas, under SpecRange.              *)

Called == ret.kind \in {"return", "raise"}

\* The row-major content of the rectangle, columns outside the frame missing.
RectangleRowMajor(frame, start_row, end_row, start_col, end_col) ==
    LET width == end_col - start_col + 1
    IN  [j \in 1..((end_row - start_row + 1) * width) |->
            LET r == start_row + ((j - 1) \div width)
                c == start_col + ((j - 1) % width)
            IN  IF c <= frame.num_cols THEN Scalar(frame, r - 1, c - 1) ELSE None]

\* C3 (as claimed): a range with 1 <= start_row <= end_row <= row_count and
\* start_col <= end_col resolves to its (rows * columns) elements in row-major
\* order, the cells beyond col_count as the missing marker, wherever its
\* columns lie.
C3_RangePaddedToRectangle ==
    (/\ Called
     /\ IsRangeToken(cell_range)
     /\ LetterRun(RangeStart(cell_range)) <= MaxColumnLetters
     /\ LetterRun(RangeEnd(cell_range)) <= MaxColumnLetters
     /\ 1 <= TokenRow(RangeStart(cell_range))
     /\ TokenRow(RangeStart(cell_range)) <= TokenRow(RangeEnd(cell_range))
     /\ TokenRow(RangeEnd(cell_range)) <= df.num_rows
     /\ TokenColumn(RangeStart(cell_range)) <= TokenColumn(RangeEnd(cell_range)))
    => ret = Return(List(RectangleRowMajor(df,
                 TokenRow(RangeStart(cell_range)), TokenRow(RangeEnd(cell_range)),
                 TokenColumn(RangeStart(cell_range)), TokenColumn(RangeEnd(cell_range)))))

\* C4: a well-formed cell (column A..ZZZ) whose row or column lies beyond the
\* frame resolves to the missing marker, and a well-formed range with an
\* endpoint row beyond the frame resolves to the empty list; neither raises.
C4_OutOfBoundsNeverRaises ==
    /\ (/\ Called
        /\ IsCellToken(cell_range)
        /\ LetterRun(cell_range) <= MaxColumnLetters
        /\ \/ TokenRow(cell_range) > df.num_rows
           \/ TokenColumn(cell_range) > df.num_cols)
       => ret = Return(None)
    /\ (/\ Called
        /\ IsRangeToken(cell_range)
        /\ LetterRun(RangeStart(cell_range)) <= MaxColumnLetters
        /\ LetterRun(RangeEnd(cell_range)) <= MaxColumnLetters
        /\ \/ TokenRow(RangeStart(cell_range)) > df.num_rows
           \/ TokenRow(RangeEnd(cell_range)) > df.num_rows)
       => ret = Return(List(<<>>))

\* C4 witness: a range that starts on a row of the frame, in a column of the
\* frame, and ends on a row beyond it has been resolved.
C4_Witness ==
    /\ Called
    /\ IsRangeToken(cell_range)
    /\ TokenRow(RangeStart(cell_range)) >= 1
    /\ TokenRow(RangeStart(cell_range)) <= df.num_rows
    /\ TokenColumn(RangeStart(cell_range)) <= df.num_cols
    /\ TokenColumn(RangeStart(cell_range)) <= TokenColumn(RangeEnd(cell_range))
    /\ TokenRow(RangeEnd(cell_range)) > df.num_rows
    /\ ret = Return(List(<<>>))

\* C10 (as claimed): a token <letters><digits> resolves to the scalar at
\* (row-1, col-1) when 1 <= row <= row_count and 1 <= col <= col_count, and to
\* the missing marker or an error everywhere else.
C10_OnlyTheAddressedCell ==
    (Called /\ IsCellToken(cell_range)) =>
        IF /\ 1 <= TokenRow(cell_range) /\ TokenRow(cell_range) <= df.num_rows
           /\ 1 <= TokenColumn(cell_range) /\ TokenColumn(cell_range) <= df.num_cols
        THEN ret = Return(Scalar(df, TokenRow(cell_range) - 1, TokenColumn(cell_range) - 1))
        ELSE ret = Return(None) \/ ret.kind = "raise"

---------------------------------------------------------------------------
(* Properties of the extraction runs, under Spec.                          *)

\* The specs of the run.
RunSpecs == parse_position_args(get_parameters(param_text))

FieldOf(row, key) == row[CHOOSE k \in DOMAIN row : row[k].key = key].val

\* What a spec resolves to when it is the only one: its value, or the
\* missing marker when its resolution fails.
ValueAlone(frame, spec) ==
    LET got == get_range_data_from_pandas(frame, spec[1])
    IN  IF got.kind = "raise" THEN None ELSE got.val

\* The last spec declared with the field name of spec i.
LastWithSameField(specs, i) ==
    CHOOSE j \in DOMAIN specs :
        /\ specs[j][2] = specs[i][2]
        /\ \A m \in DOMAIN specs : specs[m][2] = specs[i][2] => m <= j

FirstAt(keys, key) ==
    CHOOSE n \in DOMAIN keys :
        /\ keys[n] = key
        /\ \A m \in DOMAIN keys : keys[m] = key => n <= m

\* C5: every sheet that was read has exactly one record, whatever the specs;
\* the specs are applied to it in declaration order, each with the value it
\* has alone, a failing one with the missing marker: the record holds, under
\* each field name, the value of the last spec declared with that name, has
\* no other key than the two reserved ones, and lists its keys in the order
\* they were first set.
C5_EverySpecAppliedAlone ==
    LET specs == RunSpecs
        keys  == <<<<"s", "h", "e", "e", "t">>, <<"s", "o", "u", "r", "c", "e", "_", "f", "i", "l", "e">>>> \o [i \in DOMAIN specs |-> specs[i][2]]
    IN  /\ \A i \in DOMAIN workbooks : \A k \in DOMAIN sheet_names(workbooks[i].path) :
               Cardinality({j \in DOMAIN emitted :
                               /\ emitted[j].path = workbooks[i].path
                               /\ emitted[j].sheet = sheet_names(workbooks[i].path)[k]})
               = IF workbooks[i].opened /\ workbooks[i].readable[k] THEN 1 ELSE 0
        /\ \A j \in DOMAIN emitted :
               LET row   == emitted[j].row
                   frame == read_excel(emitted[j].path, emitted[j].sheet)
                   alone == [i \in DOMAIN specs |-> ValueAlone(frame, specs[i])]
               IN  /\ \A n \in DOMAIN keys : DictHas(row, keys[n])
                   /\ \A i \in DOMAIN specs :
                          FieldOf(row, specs[i][2]) = alone[LastWithSameField(specs, i)]
                   /\ \A k \in DOMAIN row : \E n \in DOMAIN keys : keys[n] = row[k].key
                   /\ \A k, m \in DOMAIN row :
                          k < m => FirstAt(keys, row[k].key) < FirstAt(keys, row[m].key)

\* C5 witness: a record of a run whose first spec fails and whose second
\* spec resolves to a cell of the sheet.
C5_Witness ==
    /\ Len(RunSpecs) >= 2
    /\ RunSpecs[1][2] # RunSpecs[2][2]
    /\ \E j \in DOMAIN emitted :
           LET frame == read_excel(emitted[j].path, emitted[j].sheet)
           IN  /\ get_range_data_from_pandas(frame, RunSpecs[1][1]).kind = "raise"
               /\ FieldOf(emitted[j].row, RunSpecs[1][2]) = None
               /\ FieldOf(emitted[j].row, RunSpecs[2][2]) = Scalar(frame, 0, 0)

\* The most sheets a workbook has.
MaxSheets ==
    CHOOSE n \in 0..10 :
        /\ \A f \in FilePool : Len(sheet_names(f)) <= n
        /\ \E f \in FilePool : Len(sheet_names(f)) = n

\* The (workbook, sheet) positions of the processed workbooks, workbooks in
\* processing order and sheets in workbook order, that were opened and read.
ReadSheets ==
    SelectSeq([n \in 1..(Len(workbooks) * MaxSheets) |->
                  <<((n - 1) \div MaxSheets) + 1, ((n - 1) % MaxSheets) + 1>>],
              LAMBDA at : /\ at[2] <= Len(sheet_names(workbooks[at[1]].path))
                          /\ workbooks[at[1]].opened
                          /\ workbooks[at[1]].readable[at[2]])

RecordAt(at) ==
    ExtractRow(workbooks[at[1]].path, sheet_names(workbooks[at[1]].path)[at[2]], RunSpecs)

\* C6: in merge mode the files are processed in input order whatever fails,
\* the table holds one record for each sheet read of each workbook opened, by
\* file and then by sheet, and the run ends with NoDataExtracted and nothing
\* written exactly when there is no record, else with that one table written.
C6_MergedTableInFileAndSheetOrder ==
    pc \in {"extract_to_single_file", "done"} /\ output_mode = "single" =>
        /\ Len(workbooks) = file_i - 1
        /\ \A i \in DOMAIN workbooks : workbooks[i].path = input_files[i]
        /\ Len(all_results) = Len(ReadSheets)
        /\ \A n \in DOMAIN all_results : all_results[n] = RecordAt(ReadSheets[n])
        /\ pc = "extract_to_single_file" => written = <<>>
        /\ pc = "done" =>
              /\ Len(workbooks) = Len(input_files)
              /\ IF Len(ReadSheets) = 0
                 THEN written = <<>> /\ dialog = "error: no data"
                 ELSE /\ Len(written) = 1
                      /\ written[1].records = all_results
                      /\ written[1].path = MergedOutputPath(output_dir_var, output_name_var)
                      /\ dialog = "info: done"

\* C6 witness: a finished merge run over two files of which the first did not
\* open and the second had an unreadable first sheet and a readable second.
C6_Witness ==
    /\ pc = "done"
    /\ output_mode = "single"
    /\ Len(workbooks) = 2
    /\ ~workbooks[1].opened
    /\ workbooks[2].opened
    /\ Len(workbooks[2].readable) = 2
    /\ ~workbooks[2].readable[1]
    /\ workbooks[2].readable[2]
    /\ Len(written) = 1
    /\ Len(written[1].records) = 1

\* The input files of a per-file run that fail: not opened, or no record.
FailingFiles ==
    {i \in DOMAIN workbooks :
        \/ ~workbooks[i].opened
        \/ \A k \in DOMAIN workbooks[i].readable : ~workbooks[i].readable[k]}

\* The files on disk after the writes, and what the last write left in each.
FilesOnDisk == {written[j].path : j \in DOMAIN written}

ContentOf(path) ==
    written[CHOOSE j \in DOMAIN written :
                /\ written[j].path = path
                /\ \A m \in DOMAIN written : written[m].path = path => m <= j].records

\* C7 (as claimed): a per-file run over n distinct paths of which k fail
\* processes every file, logs one failure for each failing file and ends with
\* n-k output files, one for each successful file with that file's records.
C7_OneOutputPerSuccessfulFile ==
    pc = "done" /\ output_mode = "multiple" =>
        /\ Len(workbooks) = Len(input_files)
        /\ Cardinality({n \in DOMAIN log_text : log_text[n].msg = "file error"})
               = Cardinality(FailingFiles)
        /\ Cardinality(FilesOnDisk) = Len(input_files) - Cardinality(FailingFiles)
        /\ \A i \in DOMAIN workbooks : i \notin FailingFiles =>
               LET path == OutputPathFor(output_dir_var, output_name_var, input_files[i])
               IN  /\ path \in FilesOnDisk
                   /\ \A n \in DOMAIN ContentOf(path) :
                          \E j \in DOMAIN emitted :
                              /\ emitted[j].path = input_files[i]
                              /\ emitted[j].row = ContentOf(path)[n]

AllBlank(text) == \A n \in DOMAIN text : \A k \in DOMAIN text[n] : text[n][k] = " "

\* C8: with no input file, or with a parameter box of blank lines only,
\* nothing the form does (start_extraction included) begins a run: no
\* workbook is opened, no log line, directory or file is made, and neither
\* extract_to_single_file nor extract_to_multiple_files is entered.
C8_RejectedBeforeAnyExtraction ==
    [][(pc = "idle" /\ (Len(input_files) = 0 \/ AllBlank(param_text))) =>
          /\ pc' = "idle"
          /\ UNCHANGED <<log_text, made_dirs, written, workbooks, emitted, all_results,
                         file_i>>]_vars

\* C8 witness: start_extraction has refused a form with an input file and a
\* non-empty parameter box of blank lines.
C8_Witness ==
    /\ pc = "idle"
    /\ dialog = "error: no parameter"
    /\ Len(input_files) > 0
    /\ Len(param_text) > 0
    /\ AllBlank(param_text)
    /\ log_text = <<>>
    /\ made_dirs = {}

\* C9 (as claimed): whatever the field names, the record of a sheet holds the
\* sheet's name under `sheet` and the input file's base name under
\* `source_file`.
C9_ReservedKeysKeepProvenance ==
    \A j \in DOMAIN emitted :
        /\ FieldOf(emitted[j].row, <<"s", "h", "e", "e", "t">>) = Str(<<emitted[j].sheet>>)
        /\ FieldOf(emitted[j].row, <<"s", "o", "u", "r", "c", "e", "_", "f", "i", "l", "e">>) = Str(basename(emitted[j].path))

===========================================================================
